---- MODULE Spec2Model ----
(***************************************************************************)
(* Data preparation of the sequence-model notebooks                        *)
(* (src/P05-C01-simple-rnn.ipynb): the character-level pipeline            *)
(* (vocabulary, one-hot encoding, sequences, batch rows, stacking, labels) *)
(* and the word-level pipeline (Dictionary, Corpus.tokenize, batchify);    *)
(* then the training side: the training loops of the simple RNN and GRU    *)
(* notebooks with sample and SGD, the word-level RNNModel with eval and    *)
(* train, and the training cells of the MNIST notebooks                    *)
(* (src/P04-C01-cnn-scratch.ipynb, src/P02-C04-softmax-regression-gluon).  *)
(*                                                                         *)
(* Python lists and arrays are TLA+ sequences; Python indexes are 0-based  *)
(* and are kept 0-based in every formula through At and Slice.             *)
(***************************************************************************)
EXTENDS Integers, Sequences, FiniteSets, TLC

(***************************************************************************)
(* Bounds of the model.                                                    *)
(***************************************************************************)
\* seq_length = 64 and batch_size = 32 in the notebook, scaled down
seq_length == 2
batch_size == 2
\* longest text over LongChars, and longest text over Chars
MaxTextLen == 11
MaxShortLen == 4
\* longest list of indexes handed to one_hots on its own
MaxListLen == 3

Chars == {"a", "b", "c"}
LongChars == {"a", "b"}

(***************************************************************************)
(* Python built-ins.                                                       *)
(***************************************************************************)
Min(a, b) == IF a < b THEN a ELSE b

\* s[i]
At(s, i) == s[i + 1]

\* s[a:b] for a, b >= 0: both ends are clamped to len(s)
Slice(s, a, b) ==
  LET lo == Min(a, Len(s))
      hi == Min(b, Len(s))
  IN  IF lo >= hi THEN << >> ELSE SubSeq(s, lo + 1, hi)

\* [e(i) for i in range(n)] is written [i1 \in 1..n |-> e(i1 - 1)], which
\* is empty for n <= 0 as range(n) is

\* set(s)
SetOf(s) == {s[k] : k \in 1..Len(s)}

\* d[k] = v on a dict, a function whose DOMAIN is the set of keys
Put(d, k, v) == [x \in (DOMAIN d) \cup {k} |-> IF x = k THEN v ELSE d[x]]

EmptyDict == [x \in {} |-> 0]

\* every sequence over S of length at most n
SeqsUpTo(S, n) == UNION {[1..k -> S] : k \in 0..n}

\* the orders in which list(set(...)) can enumerate the set S
Orders(S) ==
  {p \in [1..Cardinality(S) -> S] :
     \A i, j \in 1..Cardinality(S) : p[i] = p[j] => i = j}

VARIABLES
  cell,                    \* the next cell of the character-level notebook
  time_machine,            \* the text
  character_list, vocab_size, character_dict, time_numerical,
  dataset, sequences_per_batch_row, data_rows, training_data,
  labels, label_rows, training_labels

charVars == <<cell, time_machine, character_list, vocab_size, character_dict,
              time_numerical, dataset, sequences_per_batch_row, data_rows,
              training_data, labels, label_rows, training_labels>>

\* one call of one_hots followed by one call of textify
VARIABLES call, arg_numerical_list, ret_one_hots, ret_textify

ohVars == <<call, arg_numerical_list, ret_one_hots, ret_textify>>

\* the Dictionary object: its two fields, and the log of the add_word calls
\* made on it since it was constructed (word, returned index, the fields
\* after the call, and the file being tokenized)
VARIABLES word2idx, idx2word, calls

dictVars == <<word2idx, idx2word, calls>>

\* the Corpus object under construction: the next file to tokenize, the
\* exception that ended the construction ("" for none), the files as read,
\* and the fields train, valid and test
VARIABLES corpus_pc, corpus_err, files, corpus

corpusVars == <<corpus_pc, corpus_err, files, corpus>>

\* one call of batchify: its arguments and its result
VARIABLES bat_pc, arg_data, arg_batch_size, ret_batchify

batVars == <<bat_pc, arg_data, arg_batch_size, ret_batchify>>

\* the training loop of a from-scratch notebook (simple RNN or GRU): where
\* the loop stands, the notebook, len(training_data), the loop variables e
\* and i, the learning rate as the fraction num/den, the hidden state
\* (state in the simple RNN notebook, h in the GRU notebook), and the
\* arguments of the latest training step: epoch, batch, the state handed to
\* the network and the rate handed to SGD
VARIABLES loop_pc, notebook, num_batches, loop_e, loop_i, learning_rate,
          state, last_step

loopVars == <<loop_pc, notebook, num_batches, loop_e, loop_i, learning_rate,
              state, last_step>>

\* one call of sample: its arguments, the choices drawn by
\* np.random.choice, its result (the exception raised, "" for none, and the
\* string returned), and the log of its calls of the network: the input and
\* the state handed over, and the state returned
VARIABLES smp_pc, arg_prefix, arg_num_chars, choices, ret_sample, rnn_calls

sampleVars == <<smp_pc, arg_prefix, arg_num_chars, choices, ret_sample,
                rnn_calls>>

\* the run of the word-level notebook from the cell that builds the model:
\* where the run stands and the exception that ended it; the
\* configuration (args_lr is the module-level name); train_data.shape[0];
\* the attributes of the RNNModel under construction; the learning rate of
\* the trainer's optimizer; the locals of train() (train_args_lr is the name
\* args_lr in the frame of train()); and what the run has done: the hidden
\* state handed to the model by the latest training batch and by the first
\* batch of the latest eval(val_data), the latest log line, the latest
\* validation, and the calls of save_params and load_params in order
VARIABLES g_pc, g_raised, args_model, args_tied, args_epochs, args_lr,
          train_rows, model, trainer_lr, train_args_lr, best_val, epoch,
          ibatch, total_L, hidden, last_fed, eval_fed, log_line, last_val,
          io_log

gluonVars == <<g_pc, g_raised, args_model, args_tied, args_epochs, args_lr,
               train_rows, model, trainer_lr, train_args_lr, best_val, epoch,
               ibatch, total_L, hidden, last_fed, eval_fed, log_line,
               last_val, io_log>>

\* the training cell of an MNIST notebook: where the cell stands, the
\* notebook, the loop variable e, the two NDArrayIter (the number of their
\* batches, and the cursor: the number of batches handed out since the last
\* reset), the batches trained on in the current epoch, and the iterator and
\* the batches scored by the latest evaluate_accuracy
VARIABLES mn_pc, mn_notebook, mn_e, iters, processed, scored_on, scored

mnistVars == <<mn_pc, mn_notebook, mn_e, iters, processed, scored_on, scored>>

\* one call of SGD: its arguments (params is a list of arrays, each array
\* named by its identity), the arrays that exist, with their values and
\* gradient buffers, and the arrays as they were before the call
VARIABLES sgd_pc, arg_params, arg_lr, heap, heap_before

sgdVars == <<sgd_pc, arg_params, arg_lr, heap, heap_before>>

\* the parts of the notebooks that come after the data preparation
restVars == <<loopVars, sampleVars, gluonVars, mnistVars, sgdVars>>

\* what the word-level run leaves alone
notGluon == <<charVars, ohVars, dictVars, corpusVars, batVars, loopVars,
              sampleVars, mnistVars, sgdVars>>

\* what the MNIST training cells leave alone
notMnist == <<charVars, ohVars, dictVars, corpusVars, batVars, loopVars,
              sampleVars, gluonVars, sgdVars>>

\* what a call of SGD leaves alone
notSGD == <<charVars, ohVars, dictVars, corpusVars, batVars, loopVars,
            sampleVars, gluonVars, mnistVars>>

\* what the training loop leaves alone
notLoop == <<charVars, ohVars, dictVars, corpusVars, batVars, sampleVars,
             gluonVars, mnistVars, sgdVars>>

vars == <<charVars, ohVars, dictVars, corpusVars, batVars, restVars>>

\* no step taken yet
NoStep == [e |-> -1, i |-> -1, fed |-> << >>, lr |-> [num |-> 0, den |-> 1]]

\* no training loop under way
LoopIdle ==
  /\ loop_pc = "idle"
  /\ notebook = ""
  /\ num_batches = 0
  /\ loop_e = 0
  /\ loop_i = 0
  /\ learning_rate = [num |-> 0, den |-> 1]
  /\ state = << >>
  /\ last_step = NoStep

\* no call of sample under way
SampleIdle ==
  /\ smp_pc = "idle"
  /\ arg_prefix = << >>
  /\ arg_num_chars = 0
  /\ choices = << >>
  /\ ret_sample = [raised |-> "", string |-> << >>]
  /\ rnn_calls = << >>

\* a hidden state that has seen no batch: value is the batches the state
\* was computed from, graph the batches its recorded history reaches back to
NoHidden == [value |-> << >>, graph |-> << >>]

NoFed == [epoch |-> -1, ibatch |-> -1, fed |-> NoHidden]

NoLogLine == [epoch |-> -1, ibatch |-> -1, divisor |-> 0, predictions |-> 0]

NoValidation == [epoch |-> -1, val_L |-> 0, best_val |-> 0]

\* an object with no attribute set: its attributes, and the layers
\* constructed for it, in order
NoModel == [attrs |-> EmptyDict, created |-> << >>]

NoException == [type |-> "", message |-> << >>]

\* what the model build cell and train() have not touched yet
GluonFresh ==
  /\ g_raised = NoException
  /\ model = NoModel
  /\ trainer_lr = [num |-> 0, den |-> 1]
  /\ train_args_lr = "unbound"
  /\ best_val = 0
  /\ epoch = 0
  /\ ibatch = 0
  /\ total_L = 0
  /\ hidden = NoHidden
  /\ last_fed = NoFed
  /\ eval_fed = NoHidden
  /\ log_line = NoLogLine
  /\ last_val = NoValidation
  /\ io_log = << >>

\* the word-level notebook not run
GluonIdle ==
  /\ g_pc = "idle"
  /\ args_model = ""
  /\ args_tied = FALSE
  /\ args_epochs = 0
  /\ args_lr = [num |-> 0, den |-> 1]
  /\ train_rows = 0
  /\ GluonFresh

\* no MNIST notebook run
MnistIdle ==
  /\ mn_pc = "idle"
  /\ mn_notebook = ""
  /\ mn_e = 0
  /\ iters = [d \in {"train", "test"} |-> [n |-> 0, cursor |-> 0]]
  /\ processed = << >>
  /\ scored_on = ""
  /\ scored = << >>

\* no call of SGD under way
SGDIdle ==
  /\ sgd_pc = "idle"
  /\ arg_params = << >>
  /\ arg_lr = 0
  /\ heap = EmptyDict
  /\ heap_before = EmptyDict

\* neither the gluon run, nor an MNIST notebook, nor a call of SGD
OthersIdle == MnistIdle /\ SGDIdle

RestIdle == LoopIdle /\ SampleIdle /\ GluonIdle /\ OthersIdle

\* what the cells of the character-level notebook leave alone
notChar == <<ohVars, dictVars, corpusVars, batVars, restVars>>

\* what the calls of one_hots and textify leave alone
notOneHot == <<cell, time_machine, character_dict, time_numerical, dataset,
               sequences_per_batch_row, data_rows, training_data, labels,
               label_rows, training_labels, dictVars, corpusVars, batVars,
               restVars>>

(***************************************************************************)
(* One-hot representations.                                                *)
(***************************************************************************)
\* nd.zeros(shape=(1, n)): one row of n zeros
zeros(n) == << [k \in 1..n |-> 0] >>

\* array[0, idx] = 1.0
SetItem(array, idx) == << [At(array, 0) EXCEPT ![idx + 1] = 1] >>

\* one_hots with the array allocated once, before the loop: every element of
\* the result is the same array, holding a 1 for every index of the list
one_hots_shared(numerical_list, vsize) ==
  [k \in 1..Len(numerical_list) |->
     << [j \in 1..vsize |->
           IF \E m \in 1..Len(numerical_list) : numerical_list[m] = j - 1
             THEN 1 ELSE 0] >>]

\* for idx in numerical_list: array = nd.zeros(shape=(1, vocab_size));
\* array[0, idx] = 1.0; result.append(array)
one_hots(numerical_list, vsize) ==
  [k \in 1..Len(numerical_list) |-> SetItem(zeros(vsize), numerical_list[k])]

\* nd.argmax(vector, axis=0): the first position holding the largest value
argmax(vector) ==
  CHOOSE i \in 0..(Len(vector) - 1) :
    /\ \A j \in 0..(Len(vector) - 1) : At(vector, j) <= At(vector, i)
    /\ \A j \in 0..(i - 1) : At(vector, j) < At(vector, i)

RECURSIVE textify_prepend(_, _, _, _)
\* textify_from with the character put in front: result = char + result
textify_prepend(vector_list, clist, k, result) ==
  IF k > Len(vector_list) THEN result
  ELSE textify_prepend(vector_list, clist, k + 1,
                       << At(clist, argmax(At(vector_list[k], 0))) >> \o result)

RECURSIVE textify_from(_, _, _, _)
textify_from(vector_list, clist, k, result) ==
  IF k > Len(vector_list) THEN result
  ELSE textify_from(vector_list, clist, k + 1,
                    Append(result, At(clist, argmax(At(vector_list[k], 0)))))

\* result = ""; for vector in vector_list: result += character_list[argmax(vector[0])]
textify(vector_list, clist) == textify_from(vector_list, clist, 1, << >>)

(***************************************************************************)
(* Cells of the character-level notebook.                                  *)
(***************************************************************************)
Texts == SeqsUpTo(LongChars, MaxTextLen) \cup SeqsUpTo(Chars, MaxShortLen)

\* no call of one_hots or textify under way
OneHotIdle ==
  /\ call = "idle"
  /\ arg_numerical_list = << >>
  /\ ret_one_hots = << >>
  /\ ret_textify = << >>

\* self.word2idx = {}; self.idx2word = []
DictNew ==
  /\ word2idx = EmptyDict
  /\ idx2word = << >>
  /\ calls = << >>

\* no Corpus under construction
CorpusIdle ==
  /\ corpus_pc = "idle"
  /\ corpus_err = ""
  /\ files = [f \in {"train", "valid", "test"} |-> << >>]
  /\ corpus = [f \in {"train", "valid", "test"} |-> << >>]

\* no call of batchify under way
BatchifyIdle ==
  /\ bat_pc = "idle"
  /\ arg_data = << >>
  /\ arg_batch_size = 1
  /\ ret_batchify = << >>

\* the character-level notebook not run
CharIdle ==
  /\ cell = "idle"
  /\ time_machine = << >>
  /\ character_list = << >>
  /\ vocab_size = 0
  /\ character_dict = EmptyDict
  /\ time_numerical = << >>
  /\ dataset = << >>
  /\ sequences_per_batch_row = 0
  /\ data_rows = << >>
  /\ training_data = << >>
  /\ labels = << >>
  /\ label_rows = << >>
  /\ training_labels = << >>

InitChar ==
  /\ OneHotIdle
  /\ DictNew
  /\ CorpusIdle
  /\ BatchifyIdle
  /\ RestIdle
  /\ cell = "character_list"
  /\ time_machine \in Texts
  /\ character_list = << >>
  /\ vocab_size = 0
  /\ character_dict = EmptyDict
  /\ time_numerical = << >>
  /\ dataset = << >>
  /\ sequences_per_batch_row = 0
  /\ data_rows = << >>
  /\ training_data = << >>
  /\ labels = << >>
  /\ label_rows = << >>
  /\ training_labels = << >>

\* character_list = list(set(time_machine)); vocab_size = len(character_list)
BuildCharacterList ==
  /\ cell = "character_list"
  /\ \E p \in Orders(SetOf(time_machine)) : character_list' = p
  /\ vocab_size' = Len(character_list')
  /\ cell' = "character_dict"
  /\ UNCHANGED <<time_machine, character_dict, time_numerical, dataset,
                 sequences_per_batch_row, data_rows, training_data, labels,
                 label_rows, training_labels>>
  /\ UNCHANGED notChar

RECURSIVE enumerate_from_one(_, _, _)
\* enumerate_into with the count started at 1: enumerate(clist, 1)
enumerate_from_one(d, clist, e) ==
  IF e >= Len(clist) THEN d
  ELSE enumerate_from_one(Put(d, At(clist, e), e + 1), clist, e + 1)

RECURSIVE enumerate_into(_, _, _)
\* for e, char in enumerate(clist): d[char] = e
enumerate_into(d, clist, e) ==
  IF e >= Len(clist) THEN d
  ELSE enumerate_into(Put(d, At(clist, e), e), clist, e + 1)

BuildCharacterDict ==
  /\ cell = "character_dict"
  /\ character_dict' = enumerate_into(EmptyDict, character_list, 0)
  /\ cell' = "time_numerical"
  /\ UNCHANGED <<time_machine, character_list, vocab_size, time_numerical,
                 dataset, sequences_per_batch_row, data_rows, training_data,
                 labels, label_rows, training_labels>>
  /\ UNCHANGED notChar

\* time_numerical = [character_dict[char] for char in time_machine]
numericalize(text, cdict) == [k \in 1..Len(text) |-> cdict[text[k]]]

BuildTimeNumerical ==
  /\ cell = "time_numerical"
  /\ time_numerical' = numericalize(time_machine, character_dict)
  /\ cell' = "dataset"
  /\ UNCHANGED <<time_machine, character_list, vocab_size, character_dict,
                 dataset, sequences_per_batch_row, data_rows, training_data,
                 labels, label_rows, training_labels>>
  /\ UNCHANGED notChar

\* chop without the character held back for the last label:
\* range(int(np.floor(len(time_numerical)/seq_length)))
chop_no_reserve(numerical, vsize, off) ==
  [i1 \in 1..(Len(numerical) \div seq_length) |->
     LET i == i1 - 1
     IN  one_hots(Slice(numerical, i * seq_length + off,
                        (i + 1) * seq_length + off), vsize)]

\* [one_hots(time_numerical[i*seq_length+off:(i+1)*seq_length+off])
\*  for i in range(int(np.floor((len(time_numerical)-1)/seq_length)))]
chop(numerical, vsize, off) ==
  [i1 \in 1..((Len(numerical) - 1) \div seq_length) |->
     LET i == i1 - 1
     IN  one_hots(Slice(numerical, i * seq_length + off,
                        (i + 1) * seq_length + off), vsize)]

\* dataset = [one_hots(time_numerical[i*seq_length:(i+1)*seq_length]) for i in ...]
BuildDataset ==
  /\ cell = "dataset"
  /\ dataset' = chop(time_numerical, vocab_size, 0)
  /\ cell' = "data_rows"
  /\ UNCHANGED <<time_machine, character_list, vocab_size, character_dict,
                 time_numerical, sequences_per_batch_row, data_rows,
                 training_data, labels, label_rows, training_labels>>
  /\ UNCHANGED notChar

\* int(np.floor(len(dataset))/batch_size)
per_row(ds) == Len(ds) \div batch_size

\* rows_of with the row start not scaled: ds[i:i+spr]
rows_of_unscaled(ds, spr) ==
  [i1 \in 1..batch_size |-> LET i == i1 - 1 IN Slice(ds, i, i + spr)]

\* [ds[i*spr:i*spr+spr] for i in range(batch_size)]
rows_of(ds, spr) ==
  [i1 \in 1..batch_size |->
     LET i == i1 - 1 IN Slice(ds, i * spr, i * spr + spr)]

BuildDataRows ==
  /\ cell = "data_rows"
  /\ sequences_per_batch_row' = per_row(dataset)
  /\ data_rows' = rows_of(dataset, sequences_per_batch_row')
  /\ cell' = "training_data"
  /\ UNCHANGED <<time_machine, character_list, vocab_size, character_dict,
                 time_numerical, dataset, training_data, labels, label_rows,
                 training_labels>>
  /\ UNCHANGED notChar

\* array.reshape((1,-1)): all elements in one row
reshape_row(array) == At(array, 0)

\* stack_the_datasets indexes datasets[0], and ds[s][elem] for every ds, every
\* s < len(datasets[0]) and every elem < len(datasets[0][0]): a shorter ds
\* raises IndexError
stack_in_range(datasets) ==
  /\ Len(datasets) > 0
  /\ Len(At(datasets, 0)) > 0 =>
       \A b \in 1..Len(datasets) :
         /\ Len(datasets[b]) >= Len(At(datasets, 0))
         /\ \A s \in 1..Len(At(datasets, 0)) :
              Len(datasets[b][s]) >= Len(At(At(datasets, 0), 0))

\* stack_the_datasets with every row of a batch taken from datasets[0]
stack_first_row(datasets) ==
  [s1 \in 1..Len(At(datasets, 0)) |->
     [elem1 \in 1..Len(At(At(datasets, 0), 0)) |->
        [b \in 1..Len(datasets) |->
           reshape_row(At(At(At(datasets, 0), s1 - 1), elem1 - 1))]]]

\* full_dataset[s][elem] = nd.concatenate([ds[s][elem].reshape((1,-1)) for ds in datasets], axis=0)
stack_the_datasets(datasets) ==
  [s1 \in 1..Len(At(datasets, 0)) |->
     [elem1 \in 1..Len(At(At(datasets, 0), 0)) |->
        [b \in 1..Len(datasets) |->
           reshape_row(At(At(datasets[b], s1 - 1), elem1 - 1))]]]

\* training_data = stack_the_datasets(data_rows)
StackData ==
  /\ cell = "training_data"
  /\ IF stack_in_range(data_rows)
       THEN /\ training_data' = stack_the_datasets(data_rows)
            /\ cell' = "labels"
       ELSE /\ training_data' = training_data
            /\ cell' = "IndexError"
  /\ UNCHANGED <<time_machine, character_list, vocab_size, character_dict,
                 time_numerical, dataset, sequences_per_batch_row, data_rows,
                 labels, label_rows, training_labels>>
  /\ UNCHANGED notChar

\* labels = [one_hots(time_numerical[i*seq_length+1:(i+1)*seq_length+1]) for i in ...]
\* label_rows = [labels[i*spr:i*spr+spr] for i in range(batch_size)]
\* training_labels = stack_the_datasets(label_rows)
BuildLabels ==
  /\ cell = "labels"
  /\ labels' = chop(time_numerical, vocab_size, 1)
  /\ label_rows' = rows_of(labels', sequences_per_batch_row)
  /\ IF stack_in_range(label_rows')
       THEN /\ training_labels' = stack_the_datasets(label_rows')
            /\ cell' = "done"
       ELSE /\ training_labels' = training_labels
            /\ cell' = "IndexError"
  /\ UNCHANGED <<time_machine, character_list, vocab_size, character_dict,
                 time_numerical, dataset, sequences_per_batch_row, data_rows,
                 training_data>>
  /\ UNCHANGED notChar

NextChar ==
  \/ BuildCharacterList
  \/ BuildCharacterDict
  \/ BuildTimeNumerical
  \/ BuildDataset
  \/ BuildDataRows
  \/ StackData
  \/ BuildLabels

SpecChar == InitChar /\ [][NextChar]_vars

(***************************************************************************)
(* one_hots and textify as functions: a vocabulary and a list of indexes   *)
(* are drawn, one_hots is called on the list and textify on its result.    *)
(***************************************************************************)
InitOneHot ==
  /\ DictNew
  /\ CorpusIdle
  /\ BatchifyIdle
  /\ RestIdle
  /\ call = "one_hots"
  /\ \E S \in SUBSET Chars : character_list \in Orders(S)
  /\ vocab_size = Len(character_list)
  /\ arg_numerical_list \in SeqsUpTo(0..(vocab_size - 1), MaxListLen)
  /\ ret_one_hots = << >>
  /\ ret_textify = << >>
  /\ cell = "idle"
  /\ time_machine = character_list
  /\ character_dict = enumerate_into(EmptyDict, character_list, 0)
  /\ time_numerical = << >>
  /\ dataset = << >>
  /\ sequences_per_batch_row = 0
  /\ data_rows = << >>
  /\ training_data = << >>
  /\ labels = << >>
  /\ label_rows = << >>
  /\ training_labels = << >>

\* one_hots(numerical_list)
CallOneHots ==
  /\ call = "one_hots"
  /\ ret_one_hots' = one_hots(arg_numerical_list, vocab_size)
  /\ call' = "textify"
  /\ UNCHANGED <<arg_numerical_list, ret_textify, character_list, vocab_size>>
  /\ UNCHANGED notOneHot

\* textify(one_hots(numerical_list))
CallTextify ==
  /\ call = "textify"
  /\ ret_textify' = textify(ret_one_hots, character_list)
  /\ call' = "returned"
  /\ UNCHANGED <<arg_numerical_list, ret_one_hots, character_list, vocab_size>>
  /\ UNCHANGED notOneHot

NextOneHot ==
  \/ CallOneHots
  \/ CallTextify

SpecOneHot == InitOneHot /\ [][NextOneHot]_vars

\* C5: one_hots returns one (1, vocab_size) array per index of the list, in
\* the order of the list, holding 1 at that index and 0 everywhere else, so
\* exactly one 1.
C5_OneHotsSingleOne ==
  call \in {"textify", "returned"} =>
    /\ Len(ret_one_hots) = Len(arg_numerical_list)
    /\ \A k \in 0..(Len(arg_numerical_list) - 1) :
         /\ Len(At(ret_one_hots, k)) = 1
         /\ Len(At(At(ret_one_hots, k), 0)) = vocab_size
         /\ \A j \in 0..(vocab_size - 1) :
              At(At(At(ret_one_hots, k), 0), j)
                = (IF j = At(arg_numerical_list, k) THEN 1 ELSE 0)
         /\ Cardinality({j \in 0..(vocab_size - 1) :
                           At(At(At(ret_one_hots, k), 0), j) = 1}) = 1

\* a list of two different indexes, encoded
C5_Witness ==
  /\ call = "textify"
  /\ Len(arg_numerical_list) >= 2
  /\ At(arg_numerical_list, 0) # At(arg_numerical_list, 1)

\* C4: textify(one_hots(L)) has the length of L and its k-th character is
\* character_list[L[k]]; the empty list gives the empty string.
C4_TextifyInvertsOneHots ==
  call = "returned" =>
    /\ Len(ret_textify) = Len(arg_numerical_list)
    /\ \A k \in 0..(Len(arg_numerical_list) - 1) :
         At(ret_textify, k) = At(character_list, At(arg_numerical_list, k))
    /\ arg_numerical_list = << >> => ret_textify = << >>

\* a list of three indexes, not all the same, decoded
C4_Witness ==
  /\ call = "returned"
  /\ Len(arg_numerical_list) = 3
  /\ At(arg_numerical_list, 0) # At(arg_numerical_list, 2)
  /\ Len(ret_textify) = 3

(***************************************************************************)
(* Properties of the character-level pipeline.                             *)
(***************************************************************************)
\* array is the (1, vocab_size) one-hot of the character ch
Encodes(array, ch) ==
  /\ Len(array) = 1
  /\ Len(At(array, 0)) = vocab_size
  /\ \A k \in 0..(vocab_size - 1) :
       At(At(array, 0), k) = (IF At(character_list, k) = ch THEN 1 ELSE 0)

\* C6: once character_dict and time_numerical are built, character_dict is a
\* bijection from the distinct characters of the text onto 0..vocab_size-1
\* with character_list[character_dict[c]] = c, time_numerical is as long as
\* the text, and decoding it through character_list gives the text back.
C6_VocabularyRoundTrip ==
  cell \in {"dataset", "data_rows", "training_data", "labels", "done"} =>
    /\ DOMAIN character_dict = SetOf(time_machine)
    /\ vocab_size = Cardinality(SetOf(time_machine))
    /\ Len(character_list) = vocab_size
    /\ \A c \in DOMAIN character_dict : character_dict[c] \in 0..(vocab_size - 1)
    /\ \A c, d \in DOMAIN character_dict :
         character_dict[c] = character_dict[d] => c = d
    /\ {character_dict[c] : c \in DOMAIN character_dict} = 0..(vocab_size - 1)
    /\ \A c \in DOMAIN character_dict : At(character_list, character_dict[c]) = c
    /\ Len(time_numerical) = Len(time_machine)
    /\ \A k \in 0..(Len(time_machine) - 1) :
         /\ At(time_numerical, k) \in 0..(vocab_size - 1)
         /\ At(character_list, At(time_numerical, k)) = At(time_machine, k)

\* three distinct characters, one of them repeated, numericalized
C6_Witness ==
  /\ cell = "dataset"
  /\ vocab_size = 3
  /\ Len(time_numerical) > vocab_size

\* C1: with n = floor((N-1)/seq_length), dataset and labels hold n sequences
\* of exactly seq_length one-hots; dataset[i][t] encodes the character at
\* text position i*seq_length+t and labels[i][t] the character right after
\* it, which exists in the text.
C1_LabelsOffsetByOne ==
  cell = "done" =>
    LET n == (Len(time_numerical) - 1) \div seq_length
    IN  /\ Len(dataset) = (IF n > 0 THEN n ELSE 0)
        /\ Len(labels) = Len(dataset)
        /\ \A i \in 0..(n - 1) :
             /\ Len(At(dataset, i)) = seq_length
             /\ Len(At(labels, i)) = seq_length
             /\ \A t \in 0..(seq_length - 1) :
                  /\ i * seq_length + t + 1 < Len(time_machine)
                  /\ Encodes(At(At(dataset, i), t),
                             At(time_machine, i * seq_length + t))
                  /\ Encodes(At(At(labels, i), t),
                             At(time_machine, i * seq_length + t + 1))

\* the last label is the last character of the text: the label slice ends
\* exactly at the end of the text
C1_Witness ==
  /\ cell = "done"
  /\ Len(labels) >= 2
  /\ Len(labels) * seq_length + 1 = Len(time_machine)

\* C2: with spr = floor(len(dataset)/batch_size) there are batch_size rows of
\* exactly spr sequences, data_rows[b][j] = dataset[b*spr+j] and it reads
\* the seq_length characters of the text from position (b*spr+j)*seq_length;
\* the rows cover the dataset indexes 0..batch_size*spr-1 once each, so only
\* the trailing len(dataset) - batch_size*spr sequences are left out.
C2_RowsAreConsecutive ==
  cell \in {"training_data", "labels", "done"} =>
    LET spr == Len(dataset) \div batch_size
        idx(b, j) == b * spr + j
        B == 0..(batch_size - 1)
        J == 0..(spr - 1)
    IN  /\ sequences_per_batch_row = spr
        /\ Len(data_rows) = batch_size
        /\ \A b \in B :
             /\ Len(At(data_rows, b)) = spr
             /\ \A j \in J :
                  /\ idx(b, j) < Len(dataset)
                  /\ At(At(data_rows, b), j) = At(dataset, idx(b, j))
                  /\ textify(At(At(data_rows, b), j), character_list)
                       = Slice(time_machine, idx(b, j) * seq_length,
                               (idx(b, j) + 1) * seq_length)
        /\ \A b1, b2 \in B : \A j1, j2 \in J :
             idx(b1, j1) = idx(b2, j2) => b1 = b2 /\ j1 = j2
        /\ {idx(b, j) : b \in B, j \in J} = 0..(batch_size * spr - 1)
        /\ Len(dataset) - batch_size * spr \in 0..(batch_size - 1)

\* rows of two sequences each, and a trailing sequence left out
C2_Witness ==
  /\ cell = "training_data"
  /\ sequences_per_batch_row >= 2
  /\ Len(dataset) > batch_size * sequences_per_batch_row

\* C3: training_data has len(data_rows[0]) sequences of len(data_rows[0][0])
\* time steps of batch_size rows each; row b of training_data[s][t] is
\* data_rows[b][s][t] and encodes the character at text position
\* (b*spr+s)*seq_length+t, row b of training_labels[s][t] encodes the
\* character after it, and no text position is in two (s,t,b) slots.
C3_StackKeepsRowsApart ==
  cell = "done" =>
    LET spr == sequences_per_batch_row
        pos(s, t, b) == (b * spr + s) * seq_length + t
        S == 0..(spr - 1)
        T == 0..(seq_length - 1)
        B == 0..(batch_size - 1)
    IN  /\ Len(training_data) = Len(At(data_rows, 0))
        /\ Len(training_data) = spr
        /\ Len(training_labels) = spr
        /\ \A s \in S :
             /\ Len(At(training_data, s)) = Len(At(At(data_rows, 0), 0))
             /\ Len(At(training_data, s)) = seq_length
             /\ Len(At(training_labels, s)) = seq_length
             /\ \A t \in T :
                  /\ Len(At(At(training_data, s), t)) = Len(data_rows)
                  /\ Len(At(At(training_labels, s), t)) = Len(label_rows)
                  /\ \A b \in B :
                       /\ At(At(At(training_data, s), t), b)
                            = At(At(At(At(data_rows, b), s), t), 0)
                       /\ At(At(At(training_labels, s), t), b)
                            = At(At(At(At(label_rows, b), s), t), 0)
                       /\ pos(s, t, b) + 1 < Len(time_machine)
                       /\ Encodes(<< At(At(At(training_data, s), t), b) >>,
                                  At(time_machine, pos(s, t, b)))
                       /\ Encodes(<< At(At(At(training_labels, s), t), b) >>,
                                  At(time_machine, pos(s, t, b) + 1))
        /\ \A s1, s2 \in S : \A t1, t2 \in T : \A b1, b2 \in B :
             pos(s1, t1, b1) = pos(s2, t2, b2) => s1 = s2 /\ t1 = t2 /\ b1 = b2

\* two sequences per row, and a batch whose rows hold different characters
C3_Witness ==
  /\ cell = "done"
  /\ Len(training_data) >= 2
  /\ \E s \in 1..Len(training_data) : \E t \in 1..seq_length :
       training_data[s][t][1] # training_data[s][t][2]

(***************************************************************************)
(* Dictionary: word indexing.                                              *)
(***************************************************************************)
Words == {"the", "cat"}
EOS == "<eos>"

\* add_word calls made directly on a Dictionary
MaxCalls == 4

\* add_word without the test "if word not in self.word2idx"
add_word_always(w2i, i2w, word) ==
  LET appended == Append(i2w, word)
      indexed == Put(w2i, word, Len(appended) - 1)
  IN  [word2idx |-> indexed, idx2word |-> appended, ret |-> indexed[word]]

\* add_word with the index taken after the append, without the "- 1"
add_word_no_minus(w2i, i2w, word) ==
  LET present == word \in DOMAIN w2i
      appended == IF present THEN i2w ELSE Append(i2w, word)
      indexed == IF present THEN w2i ELSE Put(w2i, word, Len(appended))
  IN  [word2idx |-> indexed, idx2word |-> appended, ret |-> indexed[word]]

\* if word not in self.word2idx:
\*     self.idx2word.append(word); self.word2idx[word] = len(self.idx2word) - 1
\* return self.word2idx[word]
add_word(w2i, i2w, word) ==
  LET present == word \in DOMAIN w2i
      appended == IF present THEN i2w ELSE Append(i2w, word)
      indexed == IF present THEN w2i ELSE Put(w2i, word, Len(appended) - 1)
  IN  [word2idx |-> indexed, idx2word |-> appended, ret |-> indexed[word]]

\* __len__
dict_len(i2w) == Len(i2w)

\* the log entry of one add_word call
logged(word, after, file) ==
  [word |-> word, ret |-> after.ret, word2idx |-> after.word2idx,
   idx2word |-> after.idx2word, file |-> file]

\* Dictionary()
InitDict ==
  /\ DictNew
  /\ CharIdle
  /\ OneHotIdle
  /\ CorpusIdle
  /\ BatchifyIdle
  /\ RestIdle

\* dictionary.add_word(word), for any word
AddWordCall ==
  /\ Len(calls) < MaxCalls
  /\ \E word \in Words \cup {EOS} :
       LET after == add_word(word2idx, idx2word, word)
       IN  /\ word2idx' = after.word2idx
           /\ idx2word' = after.idx2word
           /\ calls' = Append(calls, logged(word, after, "direct"))
  /\ UNCHANGED <<charVars, ohVars, corpusVars, batVars, restVars>>

NextDict == AddWordCall

SpecDict == InitDict /\ [][NextDict]_vars

\* C7: after any add_word calls the indexes of word2idx are exactly
\* 0..len(idx2word)-1, idx2word has no word twice, idx2word[word2idx[w]] = w
\* for every word added, word2idx[idx2word[i]] = i for every index, and
\* len(dictionary) is the number of distinct words added.
C7_DictionaryInverse ==
  LET n == Len(idx2word)
      added == {calls[k].word : k \in 1..Len(calls)}
  IN  /\ {word2idx[w] : w \in DOMAIN word2idx} = 0..(n - 1)
      /\ \A i, j \in 0..(n - 1) : At(idx2word, i) = At(idx2word, j) => i = j
      /\ \A w \in added :
           /\ w \in DOMAIN word2idx
           /\ word2idx[w] \in 0..(n - 1)
           /\ At(idx2word, word2idx[w]) = w
      /\ \A i \in 0..(n - 1) :
           /\ At(idx2word, i) \in DOMAIN word2idx
           /\ word2idx[At(idx2word, i)] = i
      /\ dict_len(idx2word) = Cardinality(added)

\* two distinct words added by three calls or more, so one of them twice
C7_Witness ==
  /\ Len(calls) >= 3
  /\ dict_len(idx2word) = 2

(***************************************************************************)
(* Corpus: the three files are tokenized in turn into one Dictionary.      *)
(* A file is the list of its lines, a line the list line.split() gives.    *)
(***************************************************************************)
\* most tokens (words and line ends) in a file
MaxTokens == 3

\* the files of exactly n tokens
RECURSIVE FilesOf(_)
FilesOf(n) ==
  IF n = 0 THEN {<< >>}
  ELSE UNION {{<<line>> \o rest : line \in [1..k -> Words], rest \in FilesOf(n - 1 - k)} :
                k \in 0..(n - 1)}

Files == UNION {FilesOf(n) : n \in 0..MaxTokens}

\* for word in words: self.dictionary.add_word(word)
RECURSIVE add_words(_, _, _, _)
add_words(d, words, k, file) ==
  IF k > Len(words) THEN d
  ELSE LET after == add_word(d.word2idx, d.idx2word, words[k])
       IN  add_words([word2idx |-> after.word2idx, idx2word |-> after.idx2word,
                      calls |-> Append(d.calls, logged(words[k], after, file))],
                     words, k + 1, file)

\* first pass: tokens = 0; for line in f: words = line.split() + ['<eos>'];
\* tokens += len(words); for word in words: add_word(word)
RECURSIVE first_pass(_, _, _, _, _)
first_pass(d, lines, k, tokens, file) ==
  IF k > Len(lines) THEN [d |-> d, tokens |-> tokens]
  ELSE LET words == lines[k] \o <<EOS>>
       IN  first_pass(add_words(d, words, 1, file), lines, k + 1,
                      tokens + Len(words), file)

\* the inner loop of the second pass without "token += 1"
RECURSIVE write_words_stuck(_, _, _, _)
write_words_stuck(st, w2i, words, k) ==
  IF k > Len(words) \/ st.err # "" THEN st
  ELSE IF words[k] \notin DOMAIN w2i
         THEN [st EXCEPT !.err = "KeyError"]
  ELSE IF st.token >= Len(st.ids)
         THEN [st EXCEPT !.err = "IndexError"]
  ELSE write_words_stuck([st EXCEPT !.ids[st.token + 1] = w2i[words[k]]],
                         w2i, words, k + 1)

\* for word in words: ids[token] = self.dictionary.word2idx[word]; token += 1
RECURSIVE write_words(_, _, _, _)
write_words(st, w2i, words, k) ==
  IF k > Len(words) \/ st.err # "" THEN st
  ELSE IF words[k] \notin DOMAIN w2i
         THEN [st EXCEPT !.err = "KeyError"]
  ELSE IF st.token >= Len(st.ids)
         THEN [st EXCEPT !.err = "IndexError"]
  ELSE write_words([st EXCEPT !.ids[st.token + 1] = w2i[words[k]],
                              !.token = st.token + 1],
                   w2i, words, k + 1)

\* second pass: ids = np.zeros((tokens,)); token = 0; for line in f:
\* words = line.split() + ['<eos>']; for word in words: ...
RECURSIVE second_pass(_, _, _, _)
second_pass(st, w2i, lines, k) ==
  IF k > Len(lines) \/ st.err # "" THEN st
  ELSE second_pass(write_words(st, w2i, lines[k] \o <<EOS>>, 1), w2i, lines, k + 1)

\* Corpus.tokenize on a file that exists: the Dictionary after it, the array
\* returned and the exception raised, if any
tokenize(w2i, i2w, log, lines, file) ==
  LET first == first_pass([word2idx |-> w2i, idx2word |-> i2w, calls |-> log],
                          lines, 1, 0, file)
      second == second_pass([ids |-> [k \in 1..first.tokens |-> 0],
                             token |-> 0, err |-> ""],
                            first.d.word2idx, lines, 1)
  IN  [d |-> first.d, ids |-> second.ids, err |-> second.err]

\* a file as tokenize finds it: absent, or present with its lines
FileStates ==
  {[exists |-> FALSE, lines |-> << >>]}
    \cup {[exists |-> TRUE, lines |-> lines] : lines \in Files}

\* self.dictionary = Dictionary(), before the first tokenize
InitCorpus ==
  /\ DictNew
  /\ corpus_pc = "train"
  /\ corpus_err = ""
  /\ files = [f \in {"train", "valid", "test"} |-> << >>]
  /\ corpus = [f \in {"train", "valid", "test"} |-> << >>]
  /\ CharIdle
  /\ OneHotIdle
  /\ BatchifyIdle
  /\ RestIdle

\* the file tokenized after f in Corpus.__init__
after_file(f) ==
  CASE f = "train" -> "valid"
    [] f = "valid" -> "test"
    [] f = "test" -> "done"

\* self.train = self.tokenize(path + 'train.txt'), then valid, then test:
\* assert os.path.exists(path), the two passes, the assignment
Tokenize ==
  /\ corpus_pc \in {"train", "valid", "test"}
  /\ corpus_err = ""
  /\ \E file \in FileStates :
       IF ~file.exists
         THEN /\ corpus_err' = "AssertionError"
              /\ UNCHANGED <<word2idx, idx2word, calls, corpus_pc, files, corpus>>
         ELSE LET r == tokenize(word2idx, idx2word, calls, file.lines, corpus_pc)
              IN  /\ word2idx' = r.d.word2idx
                  /\ idx2word' = r.d.idx2word
                  /\ calls' = r.d.calls
                  /\ files' = [files EXCEPT ![corpus_pc] = file.lines]
                  /\ IF r.err = ""
                       THEN /\ corpus' = [corpus EXCEPT ![corpus_pc] = r.ids]
                            /\ corpus_pc' = after_file(corpus_pc)
                            /\ corpus_err' = ""
                       ELSE /\ corpus_err' = r.err
                            /\ UNCHANGED <<corpus, corpus_pc>>
  /\ UNCHANGED <<charVars, ohVars, batVars, restVars>>

NextCorpus == Tokenize

SpecCorpus == InitCorpus /\ [][NextCorpus]_vars

\* the files whose tokenize has returned
Tokenized ==
  CASE corpus_pc = "valid" -> {"train"}
    [] corpus_pc = "test" -> {"train", "valid"}
    [] corpus_pc = "done" -> {"train", "valid", "test"}
    [] OTHER -> {}

\* the words of a file in order, with '<eos>' after each line
RECURSIVE TokensOf(_)
TokensOf(lines) ==
  IF lines = << >> THEN << >>
  ELSE Head(lines) \o <<EOS>> \o TokensOf(Tail(lines))

\* C9: tokenize raises neither IndexError nor KeyError, and for every file it
\* has returned for, the array has one id per word and one per line, in
\* file order, and idx2word maps the ids to the words of the file with
\* '<eos>' after each line.
C9_TokenizeLossless ==
  /\ corpus_err \notin {"IndexError", "KeyError"}
  /\ \A f \in Tokenized :
       LET toks == TokensOf(files[f])
           ids == corpus[f]
       IN  /\ Len(ids) = Len(toks)
           /\ \A k \in 0..(Len(toks) - 1) :
                /\ At(ids, k) \in 0..(Len(idx2word) - 1)
                /\ At(idx2word, At(ids, k)) = At(toks, k)

\* the three files tokenized, the last one with three tokens on two lines
\* and a word the first file had already added
C9_Witness ==
  /\ corpus_pc = "done"
  /\ Len(corpus["test"]) = 3
  /\ Len(files["test"]) = 2
  /\ \E k \in 1..3 : /\ corpus["test"][k] # At(corpus["test"], 0)
                     /\ \E m \in 1..Len(corpus["train"]) :
                          corpus["train"][m] = corpus["test"][k]

\* C8: every add_word call on a word not yet present appends it and returns
\* the previous length; every call on a word already present returns its
\* index and leaves word2idx and idx2word as they were; an index returned
\* for a word is returned by every later call for it, in whichever of the
\* three tokenize calls, and is still its index.
C8_AddWordStable ==
  \A k \in 1..Len(calls) :
    LET c == calls[k]
        w2i == IF k = 1 THEN EmptyDict ELSE calls[k - 1].word2idx
        i2w == IF k = 1 THEN << >> ELSE calls[k - 1].idx2word
    IN  /\ IF c.word \in DOMAIN w2i
             THEN /\ c.ret = w2i[c.word]
                  /\ c.word2idx = w2i
                  /\ c.idx2word = i2w
             ELSE /\ c.ret = Len(i2w)
                  /\ c.idx2word = Append(i2w, c.word)
                  /\ c.word2idx = Put(w2i, c.word, Len(i2w))
        /\ \A m \in 1..(k - 1) : calls[m].word = c.word => calls[m].ret = c.ret
        /\ c.word \in DOMAIN word2idx
        /\ word2idx[c.word] = c.ret

\* a word added while tokenizing train is looked up again while tokenizing
\* test, after valid added a new word
C8_Witness ==
  /\ corpus_pc = "done"
  /\ \E k, m, n \in 1..Len(calls) :
       /\ k < m /\ m < n
       /\ calls[k].file = "train" /\ calls[m].file = "valid" /\ calls[n].file = "test"
       /\ calls[k].word = calls[n].word
       /\ calls[k].word # EOS
       /\ Len(calls[m].idx2word) > Len(calls[m - 1].idx2word)

(***************************************************************************)
(* batchify as a function: an id array and a batch size are drawn and      *)
(* batchify is called on them.  Arrays are row-major.                      *)
(***************************************************************************)
\* longest array, largest batch size and largest id handed to batchify
MaxDataLen == 6
MaxBatch == 3
MaxId == 1

\* data.reshape((rows, cols)) of a one-dimensional array of rows*cols elements
reshape(flat, rows, cols) ==
  [r \in 1..rows |-> [c \in 1..cols |-> flat[(r - 1) * cols + c]]]

\* matrix.T of a (rows, cols) array
transpose(matrix, rows, cols) ==
  [c \in 1..cols |-> [r \in 1..rows |-> matrix[r][c]]]

\* batchify reshaping straight to (nbatch, batch_size), without the transpose
batchify_no_transpose(batch_data, bsz) ==
  LET nbatch == Len(batch_data) \div bsz
      kept == Slice(batch_data, 0, nbatch * bsz)
  IN  reshape(kept, nbatch, bsz)

\* nbatch = data.shape[0] // batch_size; data = data[:nbatch * batch_size]
\* data = data.reshape((batch_size, nbatch)).T
batchify(batch_data, bsz) ==
  LET nbatch == Len(batch_data) \div bsz
      kept == Slice(batch_data, 0, nbatch * bsz)
  IN  transpose(reshape(kept, bsz, nbatch), bsz, nbatch)

InitBatchify ==
  /\ bat_pc = "call"
  /\ arg_data \in SeqsUpTo(0..MaxId, MaxDataLen)
  /\ arg_batch_size \in 1..MaxBatch
  /\ ret_batchify = << >>
  /\ DictNew
  /\ CorpusIdle
  /\ CharIdle
  /\ RestIdle
  /\ OneHotIdle

\* batchify(data, batch_size)
CallBatchify ==
  /\ bat_pc = "call"
  /\ ret_batchify' = batchify(arg_data, arg_batch_size)
  /\ bat_pc' = "returned"
  /\ UNCHANGED <<arg_data, arg_batch_size, charVars, ohVars, dictVars,
                 corpusVars, restVars>>

NextBatchify == CallBatchify

SpecBatchify == InitBatchify /\ [][NextBatchify]_vars

\* C10: with nbatch = len(data) // batch_size the result has nbatch rows of
\* batch_size columns, element [t][b] is data[b*nbatch + t], the elements
\* used are the first nbatch*batch_size ones, once each, and the
\* len(data) mod batch_size last ones are dropped.
C10_BatchifyColumns ==
  bat_pc = "returned" =>
    LET nbatch == Len(arg_data) \div arg_batch_size
        T == 0..(nbatch - 1)
        B == 0..(arg_batch_size - 1)
        src(t, b) == b * nbatch + t
    IN  /\ Len(ret_batchify) = nbatch
        /\ \A t \in T :
             /\ Len(At(ret_batchify, t)) = arg_batch_size
             /\ \A b \in B :
                  /\ src(t, b) < Len(arg_data)
                  /\ At(At(ret_batchify, t), b) = At(arg_data, src(t, b))
        /\ \A t1, t2 \in T : \A b1, b2 \in B :
             src(t1, b1) = src(t2, b2) => t1 = t2 /\ b1 = b2
        /\ {src(t, b) : t \in T, b \in B} = 0..(nbatch * arg_batch_size - 1)
        /\ Len(arg_data) - nbatch * arg_batch_size = Len(arg_data) % arg_batch_size

\* two rows of two columns holding different ids, and one token dropped
C10_Witness ==
  /\ bat_pc = "returned"
  /\ arg_batch_size = 2
  /\ Len(arg_data) = 5
  /\ Len(ret_batchify) = 2
  /\ At(arg_data, 1) # At(arg_data, 2)

(***************************************************************************)
(* The training loops of the from-scratch notebooks (simple RNN and GRU).  *)
(***************************************************************************)
\* epochs = 2000 and the period 100 of the attenuation in the notebooks,
\* scaled down; the longest training_data
epochs == 7
halving_period == 3
MaxBatches == 3

\* learning_rate = .5 (simple RNN) and learning_rate = 2.0 (GRU)
initial_rate ==
  [nb \in {"rnn", "gru"} |->
     IF nb = "rnn" THEN [num |-> 1, den |-> 2] ELSE [num |-> 2, den |-> 1]]

\* lr / 2.0
halve(lr) == [num |-> lr.num, den |-> lr.den * 2]

\* the attenuation tested on e instead of e + 1
attenuate_at_e(ep, lr) ==
  IF ep % halving_period = 0 THEN halve(lr) ELSE lr

\* if ((e+1) % 100 == 0): learning_rate = learning_rate / 2.0
attenuate(ep, lr) ==
  IF (ep + 1) % halving_period = 0 THEN halve(lr) ELSE lr

\* nd.zeros(shape=(batch_size, num_hidden)): a hidden state that has seen no
\* input.  A hidden state is written as the inputs it was computed from,
\* since the zeros it started from
zero_state == << >>

\* the time steps of the batch i of training_data, one-hot encoded
data_one_hot(ib) == [t \in 1..seq_length |-> <<"batch", ib, t - 1>>]

RECURSIVE rnn_from(_, _, _, _)
\* for X in inputs: h = tanh(dot(X, Wxh) + dot(h, Whh) + bh);
\* outputs.append(softmax(dot(h, Why) + by)): the output of a time step is
\* written as the hidden state it was computed from
rnn_from(inputs, h, k, outputs) ==
  IF k > Len(inputs) THEN [outputs |-> outputs, h |-> h]
  ELSE rnn_from(inputs, Append(h, inputs[k]), k + 1,
                Append(outputs, Append(h, inputs[k])))

\* simple_rnn(inputs, state) and gru_rnn(inputs, h): (outputs, h)
simple_rnn(inputs, h0) == rnn_from(inputs, h0, 1, << >>)

(***************************************************************************)
(* sample(prefix, num_chars).                                              *)
(***************************************************************************)
\* the longest prefix and the largest num_chars
MaxPrefixLen == 2
MaxNumChars == 2

\* the 77 of np.random.choice(77, ...): the number of distinct characters of
\* the text of the notebooks
num_choices == Cardinality(Chars)

RECURSIVE sample_fresh_state(_, _, _, _, _, _, _, _)
\* sample_from with the hidden state set to zeros in every iteration
sample_fresh_state(num_chars, drawn, clist, vsize, k, input, h, acc) ==
  IF k >= num_chars THEN acc
  ELSE LET r == simple_rnn(input, zero_state)
       IN  IF r.outputs = << >>
             THEN [acc EXCEPT !.raised = "IndexError"]
           ELSE IF vsize # num_choices
             THEN [acc EXCEPT !.raised = "ValueError"]
           ELSE LET choice == At(drawn, k)
                IN  sample_fresh_state(num_chars, drawn, clist, vsize, k + 1,
                      one_hots(<< choice >>, vsize), r.h,
                      [raised |-> "",
                       string |-> Append(acc.string, At(clist, choice)),
                       calls |-> Append(acc.calls,
                                   [input |-> input, fed |-> zero_state,
                                    h |-> r.h])])

RECURSIVE sample_from(_, _, _, _, _, _, _, _)
\* for i in range(num_chars): outputs, sample_state = simple_rnn(input,
\* sample_state); choice = np.random.choice(77, p=outputs[-1][0]);
\* string += character_list[choice]; input = one_hots([choice]).
\* outputs[-1] raises IndexError on an empty list; np.random.choice raises
\* ValueError when p does not hold 77 probabilities
sample_from(num_chars, drawn, clist, vsize, k, input, h, acc) ==
  IF k >= num_chars THEN acc
  ELSE LET r == simple_rnn(input, h)
       IN  IF r.outputs = << >>
             THEN [acc EXCEPT !.raised = "IndexError"]
           ELSE IF vsize # num_choices
             THEN [acc EXCEPT !.raised = "ValueError"]
           ELSE LET choice == At(drawn, k)
                IN  sample_from(num_chars, drawn, clist, vsize, k + 1,
                      one_hots(<< choice >>, vsize), r.h,
                      [raised |-> "",
                       string |-> Append(acc.string, At(clist, choice)),
                       calls |-> Append(acc.calls,
                                   [input |-> input, fed |-> h, h |-> r.h])])

\* sample(prefix, num_chars), with the choices np.random.choice draws:
\* the exception raised, the string returned, and the calls of the network
sample(prefix, num_chars, drawn, clist, cdict, vsize) ==
  IF \E k \in 1..Len(prefix) : prefix[k] \notin DOMAIN cdict
    THEN [raised |-> "KeyError", string |-> << >>, calls |-> << >>]
  ELSE sample_from(num_chars, drawn, clist, vsize, 0,
                   one_hots(numericalize(prefix, cdict), vsize), zero_state,
                   [raised |-> "", string |-> prefix, calls |-> << >>])

\* the vocabulary of the text is built, nothing else of the notebook is
VocabularyBuilt ==
  /\ cell = "idle"
  /\ time_machine = << >>
  /\ character_list \in Orders(Chars)
  /\ vocab_size = Len(character_list)
  /\ character_dict = enumerate_into(EmptyDict, character_list, 0)
  /\ time_numerical = << >>
  /\ dataset = << >>
  /\ sequences_per_batch_row = 0
  /\ data_rows = << >>
  /\ training_data = << >>
  /\ labels = << >>
  /\ label_rows = << >>
  /\ training_labels = << >>

InitSample ==
  /\ OneHotIdle
  /\ DictNew
  /\ CorpusIdle
  /\ BatchifyIdle
  /\ LoopIdle
  /\ GluonIdle
  /\ OthersIdle
  /\ VocabularyBuilt
  /\ smp_pc = "call"
  /\ arg_prefix \in SeqsUpTo(Chars, MaxPrefixLen)
  /\ arg_num_chars \in 0..MaxNumChars
  /\ choices = << >>
  /\ ret_sample = [raised |-> "", string |-> << >>]
  /\ rnn_calls = << >>

CallSample ==
  /\ smp_pc = "call"
  /\ \E drawn \in [1..arg_num_chars -> 0..(num_choices - 1)] :
       LET r == sample(arg_prefix, arg_num_chars, drawn, character_list,
                       character_dict, vocab_size)
       IN  /\ choices' = drawn
           /\ ret_sample' = [raised |-> r.raised, string |-> r.string]
           /\ rnn_calls' = r.calls
  /\ smp_pc' = "done"
  /\ UNCHANGED <<arg_prefix, arg_num_chars>>
  /\ UNCHANGED <<charVars, ohVars, dictVars, corpusVars, batVars, loopVars,
                 gluonVars, mnistVars, sgdVars>>

NextSample == CallSample

SpecSample == InitSample /\ [][NextSample]_vars

sample_prefix == [pc \in {"sample1", "sample2"} |->
                    IF pc = "sample1" THEN <<"a", "b">> ELSE <<"c">>]
sample_num_chars == 1

InitLoop ==
  /\ OneHotIdle
  /\ DictNew
  /\ CorpusIdle
  /\ BatchifyIdle
  /\ VocabularyBuilt
  /\ SampleIdle
  /\ GluonIdle
  /\ OthersIdle
  /\ loop_pc = "epoch"
  /\ notebook \in {"rnn", "gru"}
  /\ num_batches \in 1..MaxBatches
  /\ loop_e = 0
  /\ loop_i = 0
  /\ learning_rate = initial_rate[notebook]
  /\ state = << >>
  /\ last_step = NoStep

\* the top of an epoch without state = nd.zeros(...)
EpochStart_no_reset ==
  /\ loop_pc = "epoch"
  /\ loop_e < epochs
  /\ learning_rate' = attenuate(loop_e, learning_rate)
  /\ loop_i' = 0
  /\ loop_pc' = "batch"
  /\ UNCHANGED <<notebook, num_batches, loop_e, last_step, state>>
  /\ UNCHANGED notLoop

\* for e in range(epochs): the attenuation and the fresh hidden state
EpochStart ==
  /\ loop_pc = "epoch"
  /\ loop_e < epochs
  /\ learning_rate' = attenuate(loop_e, learning_rate)
  /\ state' = zero_state
  /\ loop_i' = 0
  /\ loop_pc' = "batch"
  /\ UNCHANGED <<notebook, num_batches, loop_e, last_step>>
  /\ UNCHANGED notLoop

\* the body of for i, (data, label) in enumerate(zip(training_data,
\* training_labels)): forward, loss, backward, SGD(params, learning_rate)
TrainBatch ==
  /\ loop_pc = "batch"
  /\ loop_i < num_batches
  /\ LET r == simple_rnn(data_one_hot(loop_i), state)
     IN  /\ state' = r.h
         /\ last_step' = [e |-> loop_e, i |-> loop_i, fed |-> state,
                          lr |-> learning_rate]
  /\ loop_i' = loop_i + 1
  /\ UNCHANGED <<loop_pc, notebook, num_batches, loop_e, learning_rate>>
  /\ UNCHANGED notLoop

\* the end of the batches of the epoch: print("Epoch %s. Loss: %s" % ...)
EpochEnd ==
  /\ loop_pc = "batch"
  /\ loop_i = num_batches
  /\ loop_pc' = "sample1"
  /\ UNCHANGED <<notebook, num_batches, loop_e, loop_i, learning_rate, state,
                 last_step>>
  /\ UNCHANGED notLoop

\* print(sample("The Time Ma", 1024, temperature=.1)), then
\* print(sample("The Medical Man rose, came to the lamp,", 1024,
\* temperature=.1)), then the next e
PrintSample ==
  /\ loop_pc \in {"sample1", "sample2"}
  /\ LET prefix == sample_prefix[loop_pc]
     IN  \E drawn \in [1..sample_num_chars -> 0..(num_choices - 1)] :
           LET r == sample(prefix, sample_num_chars, drawn, character_list,
                           character_dict, vocab_size)
           IN  /\ arg_prefix' = prefix
               /\ arg_num_chars' = sample_num_chars
               /\ choices' = drawn
               /\ ret_sample' = [raised |-> r.raised, string |-> r.string]
               /\ rnn_calls' = r.calls
  /\ IF loop_pc = "sample1"
       THEN loop_pc' = "sample2" /\ UNCHANGED loop_e
       ELSE loop_pc' = "epoch" /\ loop_e' = loop_e + 1
  /\ UNCHANGED <<notebook, num_batches, loop_i, learning_rate, state,
                 last_step, smp_pc>>
  /\ UNCHANGED <<charVars, ohVars, dictVars, corpusVars, batVars, gluonVars,
                 mnistVars, sgdVars>>

\* range(epochs) exhausted
LoopDone ==
  /\ loop_pc = "epoch"
  /\ loop_e = epochs
  /\ loop_pc' = "done"
  /\ UNCHANGED <<notebook, num_batches, loop_e, loop_i, learning_rate, state,
                 last_step>>
  /\ UNCHANGED notLoop

NextLoop ==
  \/ EpochStart
  \/ TrainBatch
  \/ EpochEnd
  \/ PrintSample
  \/ LoopDone

SpecLoop == InitLoop /\ [][NextLoop]_vars

\* a = b / 2^k, for rates a and b
IsRateOver(a, b, k) == a.num * b.den * (2 ^ k) = b.num * a.den

\* C11: the rate handed to SGD for every batch of epoch e is the initial
\* rate over 2^floor((e+1)/100); the rate changes only where an epoch
\* starts, only at an epoch e with (e+1) a multiple of 100, and only by
\* halving, so that 100 epochs lie between two consecutive halvings
C11_RateHalvedEvery100 ==
  /\ [](last_step # NoStep =>
          IsRateOver(last_step.lr, initial_rate[notebook],
                     (last_step.e + 1) \div halving_period))
  /\ [][/\ learning_rate' # learning_rate =>
             /\ loop_pc = "epoch"
             /\ loop_pc' = "batch"
             /\ (loop_e + 1) % halving_period = 0
             /\ learning_rate' = halve(learning_rate)
        /\ (loop_pc = "epoch" /\ loop_pc' = "batch"
              /\ (loop_e + 1) % halving_period = 0) =>
             learning_rate' = halve(learning_rate)]_vars

\* a batch trained after the second halving
C11_Witness ==
  /\ last_step # NoStep
  /\ last_step.e >= 2 * halving_period - 1
  /\ IsRateOver(last_step.lr, initial_rate[notebook], 2)

(***************************************************************************)
(* The word-level notebook: RNNModel, eval and train.                      *)
(***************************************************************************)
\* args_bptt = 35, args_batch_size = 32 and args_log_interval = 100 in the
\* notebook, scaled down
args_bptt == 2
args_batch_size == 2
args_log_interval == 2
\* the largest args_epochs, train_data.shape[0] and validation loss
MaxArgsEpochs == 3
MaxRows == 11
MaxLoss == 3

Modes == {"rnn_relu", "rnn_tanh", "lstm", "gru"}

\* "Invalid mode %s. Options are rnn_relu, rnn_tanh, lstm, and gru" % mode
InvalidMode(mode) ==
  [type |-> "ValueError",
   message |-> <<"Invalid mode", mode, "Options are", "rnn_relu", "rnn_tanh",
                 "lstm", "gru">>]

\* self.name = cls(...): the layer is constructed, then bound
SetAttr(obj, name, cls) ==
  [attrs |-> Put(obj.attrs, name, cls), created |-> Append(obj.created, cls)]

\* the class of the recurrent layer of a mode: rnn.RNN, rnn.LSTM or rnn.GRU
LayerOf(mode) ==
  CASE mode = "rnn_relu" -> "RNN"
    [] mode = "rnn_tanh" -> "RNN"
    [] mode = "lstm" -> "LSTM"
    [] mode = "gru" -> "GRU"

\* self.decoder = nn.Dense(vocab_size, in_units = num_hidden[, params =
\* self.encoder.params]); self.num_hidden = num_hidden
with_decoder(obj, tie_weights) ==
  LET d == SetAttr(obj, "decoder",
                   IF tie_weights THEN "Dense(params=encoder.params)"
                   ELSE "Dense")
  IN  [d EXCEPT !.attrs = Put(d.attrs, "num_hidden", "int")]

\* __init__ with the decoder constructed ahead of the test of mode
RNNModel_decoder_first(mode, tie_weights) ==
  LET drop == SetAttr(NoModel, "drop", "Dropout")
      encoder == SetAttr(drop, "encoder", "Embedding")
      decoder == with_decoder(encoder, tie_weights)
  IN  IF mode \in Modes
        THEN [raised |-> NoException,
              obj |-> SetAttr(decoder, "rnn", LayerOf(mode))]
      ELSE [raised |-> InvalidMode(mode), obj |-> decoder]

\* RNNModel.__init__(self, mode, ..., tie_weights): the exception raised and
\* the object as the constructor leaves it
RNNModel(mode, tie_weights) ==
  LET drop == SetAttr(NoModel, "drop", "Dropout")
      encoder == SetAttr(drop, "encoder", "Embedding")
  IN  IF mode \in Modes
        THEN [raised |-> NoException,
              obj |-> with_decoder(SetAttr(encoder, "rnn", LayerOf(mode)),
                                   tie_weights)]
      ELSE [raised |-> InvalidMode(mode), obj |-> encoder]

\* float("Inf"): above every loss
Inf == MaxLoss + 1

\* the losses eval can return
Losses == (1..MaxLoss) \cup {Inf}

\* args_lr = 1.0
initial_args_lr == [num |-> 1, den |-> 1]

\* lr * 0.25
quarter(lr) == [num |-> lr.num, den |-> lr.den * 4]

UnboundLocalError ==
  [type |-> "UnboundLocalError",
   message |-> <<"local variable", "args_lr", "referenced before assignment">>]

\* model.begin_state(func = mx.nd.zeros, ...)
begin_state == NoHidden

\* detach(hidden): the same values, cut from the recorded history
detach(h) == [h EXCEPT !.graph = << >>]

\* output, hidden = model(data, hidden): the hidden state returned, computed
\* from the state handed over and the batch
forward(id, h) ==
  [value |-> Append(h.value, id), graph |-> Append(h.graph, id)]

\* get_batch: seq_len = min(args_bptt, source.shape[0] - 1 - i)
seq_len(rows, off) == Min(args_bptt, rows - 1 - off)

\* range(0, train_data.shape[0] - 1, args_bptt) has an element number ib
has_batch(rows, ib) == ib * args_bptt < rows - 1

InitGluon ==
  /\ OneHotIdle
  /\ DictNew
  /\ CorpusIdle
  /\ BatchifyIdle
  /\ CharIdle
  /\ LoopIdle
  /\ SampleIdle
  /\ OthersIdle
  /\ g_pc = "model"
  /\ args_model \in Modes \cup {"rnn", "LSTM"}
  /\ args_tied \in BOOLEAN
  /\ args_epochs \in 0..MaxArgsEpochs
  /\ args_lr = initial_args_lr
  /\ train_rows \in 1..MaxRows
  /\ GluonFresh

\* model = RNNModel(args_model, ntokens, ..., args_tied); trainer =
\* gluon.Trainer(..., 'sgd', {'learning_rate': args_lr, ...})
BuildModel ==
  /\ g_pc = "model"
  /\ LET r == RNNModel(args_model, args_tied)
     IN  /\ model' = r.obj
         /\ g_raised' = r.raised
         /\ IF r.raised = NoException
              THEN g_pc' = "train" /\ trainer_lr' = args_lr
              ELSE g_pc' = "raised" /\ UNCHANGED trainer_lr
  /\ UNCHANGED <<args_model, args_tied, args_epochs, args_lr, train_rows,
                 train_args_lr, best_val, epoch, ibatch, total_L, hidden,
                 last_fed, eval_fed, log_line, last_val, io_log>>
  /\ UNCHANGED notGluon

\* train(): best_val = float("Inf"); for epoch in range(args_epochs)
TrainStart ==
  /\ g_pc = "train"
  /\ best_val' = Inf
  /\ epoch' = 0
  /\ g_pc' = "epoch"
  /\ UNCHANGED <<g_raised, args_model, args_tied, args_epochs, args_lr,
                 train_rows, model, trainer_lr, train_args_lr, ibatch,
                 total_L, hidden, last_fed, eval_fed, log_line, last_val,
                 io_log>>
  /\ UNCHANGED notGluon

\* the top of an epoch: total_L = 0.0; hidden = model.begin_state(...)
GluonEpochStart ==
  /\ g_pc = "epoch"
  /\ epoch < args_epochs
  /\ total_L' = 0
  /\ hidden' = begin_state
  /\ ibatch' = 0
  /\ g_pc' = "batch"
  /\ UNCHANGED <<g_raised, args_model, args_tied, args_epochs, args_lr,
                 train_rows, model, trainer_lr, train_args_lr, best_val,
                 epoch, last_fed, eval_fed, log_line, last_val, io_log>>
  /\ UNCHANGED notGluon

\* the body of for ibatch, i in enumerate(range(0, train_data.shape[0] - 1,
\* args_bptt)).  total_L is written as the number of predictions whose
\* losses are summed into it: L holds one loss for each of the seq_len *
\* args_batch_size predictions of the batch
GluonBatch ==
  /\ g_pc = "batch"
  /\ has_batch(train_rows, ibatch)
  /\ LET fed == detach(hidden)
         sum == total_L + seq_len(train_rows, ibatch * args_bptt)
                            * args_batch_size
     IN  /\ hidden' = forward(<<epoch, ibatch>>, fed)
         /\ last_fed' = [epoch |-> epoch, ibatch |-> ibatch, fed |-> fed]
         /\ IF ibatch % args_log_interval = 0 /\ ibatch > 0
              THEN /\ log_line' =
                        [epoch |-> epoch + 1, ibatch |-> ibatch,
                         divisor |-> args_bptt * args_batch_size
                                       * args_log_interval,
                         predictions |-> sum]
                   /\ total_L' = 0
              ELSE /\ total_L' = sum
                   /\ UNCHANGED log_line
  /\ ibatch' = ibatch + 1
  /\ UNCHANGED <<g_pc, g_raised, args_model, args_tied, args_epochs, args_lr,
                 train_rows, model, trainer_lr, train_args_lr, best_val,
                 epoch, eval_fed, last_val, io_log>>
  /\ UNCHANGED notGluon

\* save_params that writes no file
save_params_skipped(log) == log

\* model.save_params(args_save) and model.load_params(args_save, context),
\* as entries of the log of the calls
save_params(log) == Append(log, "save")
load_params(log) == Append(log, "load")

\* the end of an epoch: val_L = eval(val_data), then the improving or the
\* non-improving branch.  eval starts from its own hidden state; the loss it
\* returns is any loss.  args_lr is assigned in train(), which has no global
\* statement: the name is local to train(), and unbound when
\* args_lr * 0.25 reads it
GluonEpochEnd ==
  /\ g_pc = "batch"
  /\ ~has_batch(train_rows, ibatch)
  /\ eval_fed' = begin_state
  /\ \E val_L \in Losses :
       /\ last_val' = [epoch |-> epoch, val_L |-> val_L, best_val |-> best_val]
       /\ IF val_L < best_val
            THEN /\ best_val' = val_L
                 /\ io_log' = save_params(io_log)
                 /\ epoch' = epoch + 1
                 /\ g_pc' = "epoch"
                 /\ UNCHANGED <<g_raised, train_args_lr, trainer_lr>>
          ELSE IF train_args_lr = "unbound"
            THEN /\ g_raised' = UnboundLocalError
                 /\ g_pc' = "raised"
                 /\ UNCHANGED <<best_val, io_log, epoch, train_args_lr,
                                trainer_lr>>
          ELSE /\ train_args_lr' = quarter(train_args_lr)
               /\ trainer_lr' = quarter(train_args_lr)
               /\ io_log' = load_params(io_log)
               /\ epoch' = epoch + 1
               /\ g_pc' = "epoch"
               /\ UNCHANGED <<g_raised, best_val>>
  /\ UNCHANGED <<args_model, args_tied, args_epochs, args_lr, train_rows,
                 model, ibatch, total_L, hidden, last_fed, log_line>>
  /\ UNCHANGED notGluon

\* range(args_epochs) exhausted: train() returns, and the cell goes on with
\* model.load_params(args_save, context); test_L = eval(test_data)
AfterTrain ==
  /\ g_pc = "epoch"
  /\ epoch >= args_epochs
  /\ io_log' = load_params(io_log)
  /\ eval_fed' = begin_state
  /\ g_pc' = "done"
  /\ UNCHANGED <<g_raised, args_model, args_tied, args_epochs, args_lr,
                 train_rows, model, trainer_lr, train_args_lr, best_val,
                 epoch, ibatch, total_L, hidden, last_fed, log_line,
                 last_val>>
  /\ UNCHANGED notGluon

NextGluon ==
  \/ BuildModel
  \/ TrainStart
  \/ GluonEpochStart
  \/ GluonBatch
  \/ GluonEpochEnd
  \/ AfterTrain

SpecGluon == InitGluon /\ [][NextGluon]_vars

C14_LogDivisor ==
  log_line # NoLogLine => log_line.divisor = log_line.predictions

\* C16: an epoch whose validation loss is not below the best so far
\* quarters the learning rate, re-initialises the optimizer with it, reloads
\* the saved parameters and goes on to the next epoch; an improving epoch
\* leaves the learning rate alone
C16_DecayOnNoImprovement ==
  [][(g_pc = "batch" /\ ~has_batch(train_rows, ibatch)
        /\ last_val' # last_val) =>
       IF last_val'.val_L < best_val
         THEN trainer_lr' = trainer_lr
       ELSE /\ trainer_lr' = quarter(trainer_lr)
            /\ io_log' = Append(io_log, "load")
            /\ g_raised' = NoException
            /\ g_pc' = "epoch"
            /\ epoch' = epoch + 1]_vars

\* every load_params has a save_params before it
SavedBeforeLoaded ==
  \A k \in 1..Len(io_log) :
    io_log[k] = "load" => \E j \in 1..(k - 1) : io_log[j] = "save"

\* C17 as stated: for every args_epochs and every sequence of validation
\* losses, load_params is never executed before save_params has been
C17_LoadAfterSave_AnyEpochs == SavedBeforeLoaded

\* C17 for args_epochs >= 1: load_params is never executed before
\* save_params has been
C17_LoadAfterSave == args_epochs >= 1 => SavedBeforeLoaded

\* the reload after train() returned from two improving epochs
C17_Witness ==
  /\ g_pc = "done"
  /\ args_epochs = 2
  /\ io_log = <<"save", "save", "load">>

(***************************************************************************)
(* The three training loops: a run is a run of one of the notebooks.       *)
(***************************************************************************)
InitTraining == InitLoop \/ InitGluon

NextTraining == NextLoop \/ NextGluon

SpecTraining == InitTraining /\ [][NextTraining]_vars

RECURSIVE SeenBatches(_)
\* the hidden state computed from the batches 0 .. n-1, from zeros
SeenBatches(n) ==
  IF n <= 0 THEN zero_state
  ELSE simple_rnn(data_one_hot(n - 1), SeenBatches(n - 1)).h

\* C18: in each of the three loops, the hidden state handed to the network
\* for batch k of an epoch is the state computed from the batches 0 .. k-1 of
\* that epoch alone, from zeros (in the gluon loop: detached); the state is
\* set to zeros at the top of an epoch and nowhere else; sample and eval
\* start from zeros, whatever the training state
C18_HiddenStatePerEpoch ==
  /\ [](last_step # NoStep => last_step.fed = SeenBatches(last_step.i))
  /\ [](rnn_calls # << >> => At(rnn_calls, 0).fed = zero_state)
  /\ [][state' # state =>
          \/ loop_pc = "epoch" /\ loop_pc' = "batch" /\ state' = zero_state
          \/ /\ loop_pc = "batch"
             /\ loop_i' = loop_i + 1
             /\ state' = simple_rnn(data_one_hot(loop_i), state).h]_vars
  /\ [](last_fed # NoFed =>
          last_fed.fed =
            [value |-> [k \in 1..last_fed.ibatch |->
                          <<last_fed.epoch, k - 1>>],
             graph |-> << >>])
  /\ [](eval_fed = begin_state)
  /\ [][hidden' # hidden =>
          \/ g_pc = "epoch" /\ g_pc' = "batch" /\ hidden' = begin_state
          \/ /\ g_pc = "batch"
             /\ ibatch' = ibatch + 1
             /\ hidden' = forward(<<epoch, ibatch>>, detach(hidden))]_vars

\* the second batch of a second epoch, in a from-scratch loop
C18_Witness ==
  /\ last_step # NoStep
  /\ last_step.e = 1
  /\ last_step.i = 1
  /\ rnn_calls # << >>

\* the second batch of a second epoch, in the gluon loop
C18_WitnessGluon ==
  /\ last_fed # NoFed
  /\ last_fed.epoch = 1
  /\ last_fed.ibatch = 1
  /\ last_val # NoValidation

(***************************************************************************)
(* The training cells of the MNIST notebooks (src/P04-C01-cnn-scratch and  *)
(* src/P02-C04-softmax-regression-gluon).                                  *)
(***************************************************************************)
\* epochs = 10 in both notebooks, scaled down; the most batches of one
\* iterator
mnist_epochs == 3
MaxIterBatches == 3

\* data_iterator.reset()
reset(it) == [it EXCEPT !.cursor = 0]

\* next(data_iterator) raises StopIteration
exhausted(it) == it.cursor >= it.n

\* next(data_iterator): the batch handed out, and the iterator after it
next_batch(it) == [batch |-> it.cursor, it |-> [it EXCEPT !.cursor = @ + 1]]

RECURSIVE for_each_batch(_, _)
\* for i, batch in enumerate(data_iterator): the batches the body runs on,
\* and the iterator when StopIteration ends the loop.  iter() of the
\* iterator is the iterator itself, where it stands
for_each_batch(it, seen) ==
  IF exhausted(it) THEN [batches |-> seen, it |-> it]
  ELSE for_each_batch(next_batch(it).it, Append(seen, next_batch(it).batch))

\* evaluate_accuracy without data_iterator.reset()
evaluate_accuracy_no_reset(it) == for_each_batch(it, << >>)

\* evaluate_accuracy(data_iterator, net): the batches scored, and the
\* iterator as the call leaves it
evaluate_accuracy(it) == for_each_batch(reset(it), << >>)

InitMnist ==
  /\ OneHotIdle
  /\ DictNew
  /\ CorpusIdle
  /\ BatchifyIdle
  /\ CharIdle
  /\ LoopIdle
  /\ SampleIdle
  /\ GluonIdle
  /\ SGDIdle
  /\ mn_notebook \in {"cnn", "softmax"}
  /\ mn_pc = (IF mn_notebook = "softmax" THEN "first_eval" ELSE "epoch")
  /\ mn_e = 0
  /\ \E ntrain, ntest \in 1..MaxIterBatches :
       iters = [d \in {"train", "test"} |->
                  [n |-> IF d = "train" THEN ntrain ELSE ntest, cursor |-> 0]]
  /\ processed = << >>
  /\ scored_on = ""
  /\ scored = << >>

\* the cell evaluate_accuracy(test_data, net) of the softmax notebook, ahead
\* of the training cell
FirstEvaluate ==
  /\ mn_pc = "first_eval"
  /\ LET r == evaluate_accuracy(iters["test"])
     IN  /\ iters' = [iters EXCEPT !["test"] = r.it]
         /\ scored' = r.batches
         /\ scored_on' = "test"
  /\ mn_pc' = "epoch"
  /\ UNCHANGED <<mn_notebook, mn_e, processed>>
  /\ UNCHANGED notMnist

\* the top of an epoch without train_data.reset()
MnistEpochStart_no_reset ==
  /\ mn_pc = "epoch"
  /\ mn_e < mnist_epochs
  /\ processed' = << >>
  /\ mn_pc' = "batch"
  /\ UNCHANGED <<mn_notebook, mn_e, scored_on, scored, iters>>
  /\ UNCHANGED notMnist

\* for e in range(epochs): train_data.reset()
MnistEpochStart ==
  /\ mn_pc = "epoch"
  /\ mn_e < mnist_epochs
  /\ iters' = [iters EXCEPT !["train"] = reset(@)]
  /\ processed' = << >>
  /\ mn_pc' = "batch"
  /\ UNCHANGED <<mn_notebook, mn_e, scored_on, scored>>
  /\ UNCHANGED notMnist

\* the body of for i, batch in enumerate(train_data): forward, backward,
\* SGD(params, .01) or trainer.step(data.shape[0])
MnistBatch ==
  /\ mn_pc = "batch"
  /\ ~exhausted(iters["train"])
  /\ LET r == next_batch(iters["train"])
     IN  /\ iters' = [iters EXCEPT !["train"] = r.it]
         /\ processed' = Append(processed, r.batch)
  /\ UNCHANGED <<mn_pc, mn_notebook, mn_e, scored_on, scored>>
  /\ UNCHANGED notMnist

\* StopIteration ends the loop over train_data
MnistBatchesEnd ==
  /\ mn_pc = "batch"
  /\ exhausted(iters["train"])
  /\ mn_pc' = "eval_test"
  /\ UNCHANGED <<mn_notebook, mn_e, iters, processed, scored_on, scored>>
  /\ UNCHANGED notMnist

\* test_accuracy = evaluate_accuracy(test_data, net), then train_accuracy =
\* evaluate_accuracy(train_data, net), the print, and the next e
EvaluateAccuracy ==
  /\ mn_pc \in {"eval_test", "eval_train"}
  /\ LET d == IF mn_pc = "eval_test" THEN "test" ELSE "train"
         r == evaluate_accuracy(iters[d])
     IN  /\ iters' = [iters EXCEPT ![d] = r.it]
         /\ scored' = r.batches
         /\ scored_on' = d
  /\ IF mn_pc = "eval_test"
       THEN mn_pc' = "eval_train" /\ UNCHANGED mn_e
       ELSE mn_pc' = "epoch" /\ mn_e' = mn_e + 1
  /\ UNCHANGED <<mn_notebook, processed>>
  /\ UNCHANGED notMnist

\* range(epochs) exhausted
MnistDone ==
  /\ mn_pc = "epoch"
  /\ mn_e >= mnist_epochs
  /\ mn_pc' = "done"
  /\ UNCHANGED <<mn_notebook, mn_e, iters, processed, scored_on, scored>>
  /\ UNCHANGED notMnist

NextMnist ==
  \/ FirstEvaluate
  \/ MnistEpochStart
  \/ MnistBatch
  \/ MnistBatchesEnd
  \/ EvaluateAccuracy
  \/ MnistDone

SpecMnist == InitMnist /\ [][NextMnist]_vars

\* the batches 0 .. n-1, each once, in order
AllBatches(n) == [k \in 1..n |-> k - 1]

\* C19: when the batch loop of a training epoch ends, it has run on every
\* batch of train_data exactly once, in every epoch; every call of
\* evaluate_accuracy has scored every batch of its iterator exactly once
C19_EveryBatchOnce ==
  /\ mn_pc \in {"eval_test", "eval_train"} =>
       processed = AllBatches(iters["train"].n)
  /\ scored_on # "" => scored = AllBatches(iters[scored_on].n)

\* the batch loop of the second epoch has ended: train_data was left
\* exhausted by evaluate_accuracy(train_data, net) in the first
C19_Witness ==
  /\ mn_pc = "eval_test"
  /\ mn_e = 1
  /\ scored_on = "train"
  /\ Len(processed) >= 2

(***************************************************************************)
(* SGD(params, lr).                                                        *)
(***************************************************************************)
\* the largest value of an array and the largest lr; an array is written as
\* one number, and so is its gradient buffer
MaxVal == 1
MaxLr == 2

\* the arrays that exist when SGD is called, by identity
ArrayIds == {0, 1, 2}

GradValues == {-1, 0, 1}

\* the arrays: value, gradient buffer, and whether the buffer is attached
Arrays == [data : 0..MaxVal, grad : GradValues, attached : {TRUE}]

\* the lists of distinct arrays
ParamLists ==
  {p \in SeqsUpTo(ArrayIds, Cardinality(ArrayIds)) :
     \A i, j \in 1..Len(p) : p[i] = p[j] => i = j}

RECURSIVE SGD_rebind(_, _, _, _)
\* SGD with param = param - lr * param.grad: the result is a new array, with
\* no gradient buffer, and the array of params keeps its value
SGD_rebind(params, lr, hp, k) ==
  IF k > Len(params) THEN hp
  ELSE LET param == params[k]
           fresh == Cardinality(DOMAIN hp)
       IN  SGD_rebind(params, lr,
             Put(hp, fresh, [data |-> hp[param].data - lr * hp[param].grad,
                             grad |-> 0, attached |-> FALSE]),
             k + 1)

RECURSIVE SGD(_, _, _, _)
\* for param in params: param[:] = param - lr * param.grad
SGD(params, lr, hp, k) ==
  IF k > Len(params) THEN hp
  ELSE LET param == params[k]
       IN  SGD(params, lr,
               [hp EXCEPT ![param].data = hp[param].data - lr * hp[param].grad],
               k + 1)

InitSGD ==
  /\ OneHotIdle
  /\ DictNew
  /\ CorpusIdle
  /\ BatchifyIdle
  /\ CharIdle
  /\ LoopIdle
  /\ SampleIdle
  /\ GluonIdle
  /\ MnistIdle
  /\ sgd_pc = "call"
  /\ arg_params \in ParamLists
  /\ arg_lr \in 1..MaxLr
  /\ heap \in [ArrayIds -> Arrays]
  /\ heap_before = heap

CallSGD ==
  /\ sgd_pc = "call"
  /\ heap' = SGD(arg_params, arg_lr, heap, 1)
  /\ heap_before' = heap
  /\ sgd_pc' = "done"
  /\ UNCHANGED <<arg_params, arg_lr>>
  /\ UNCHANGED notSGD

NextSGD == CallSGD

SpecSGD == InitSGD /\ [][NextSGD]_vars

\* C20: after SGD(params, lr), every array of params holds its value before
\* the call minus lr times its gradient before the call, and is the same
\* array with the same gradient buffer attached; every other array is as it
\* was, and no array has come into being
C20_SGDUpdatesInPlace ==
  sgd_pc = "done" =>
    /\ DOMAIN heap = DOMAIN heap_before
    /\ \A a \in DOMAIN heap_before :
         IF a \in SetOf(arg_params)
           THEN /\ heap[a].data
                     = heap_before[a].data - arg_lr * heap_before[a].grad
                /\ heap[a].grad = heap_before[a].grad
                /\ heap[a].attached = heap_before[a].attached
           ELSE heap[a] = heap_before[a]

\* two arrays updated, one of them changed, a third array not in params
C20_Witness ==
  /\ sgd_pc = "done"
  /\ Len(arg_params) = 2
  /\ \E a \in SetOf(arg_params) : heap[a].data # heap_before[a].data
  /\ \E a \in DOMAIN heap : a \notin SetOf(arg_params) /\ heap[a].grad # 0

====
